---- MODULE Spec2Model ----
(***************************************************************************)
(* Model of the tablet discovery gateway of go/vt/vtgate:                  *)
(* DiscoveryGateway.withRetry, StatsUpdate, Close, shuffleTablets and the   *)
(* status aggregators (discoverygateway.go), together with the parts of    *)
(* the health check, the tablet stats cache and the failover buffer that   *)
(* the gateway calls.                                                      *)
(*                                                                         *)
(* One keyspace/shard is modelled; a target is therefore its tablet type.  *)
(* One withRetry call is followed step by step while health events,       *)
(* buffer events and Close interleave with it.                             *)
(***************************************************************************)
EXTENDS Integers, Sequences, FiniteSets, TLC

\* ------------------------------------------------------------------ bounds
\* Largest gateway_retry_count the model configures (the smallest is -1).
MaxRetryCount == 2
\* buffer_size_per_shard of the model's buffer.
BufferSizePerShard == 1
\* Calls of getStatsAggregator or CacheStatus each concurrent caller makes.
MaxAggrCalls == 2

\* The longest -cells_to_watch value, in characters.
MaxCellsLen == 4

\* The longest slice handed to shuffleTablets on its own.
MaxSliceLen == 4

\* ------------------------------------------------------------- the universe
TabletTypes == {"MASTER", "REPLICA", "RDONLY"}

\* Tablet keys. Tablets "t1" and "t3" live in the gateway's cell, "t2" in
\* another watched cell.
Tablets == {"t1", "t2", "t3"}

\* The tablets of the shard in the two topologies the model starts from.
TwoTablets == {"t1", "t2"}

LocalCell == "a"

TabletCell(t) == IF t = "t2" THEN "b" ELSE "a"

\* vtrpc codes an error can carry.
Codes == {"UNAVAILABLE", "FAILED_PRECONDITION"}

\* An error value: its vtrpc code, the statement that produced it and
\* whether NewShardError wrapped it with the target. NilErr is Go's nil.
NilErr == [code |-> "OK", src |-> "none", wrapped |-> FALSE]

Error(code, src) == [code |-> code, src |-> src, wrapped |-> FALSE]

\* Goroutines that call getStatsAggregator and CacheStatus concurrently.
Procs == {"p1", "p2"}

\* The values discovery.AllowedTabletTypes takes in the model.
AllowedChoices == {{}, {"REPLICA"}}

VARIABLES
    \* configuration (flags and constructor arguments)
    retryCount, allowedTabletTypes, routeReplicaToRdonly,
    \* the tablets of the shard the topology watchers found
    known,
    \* collaborators: tablet stats cache and failover buffer
    healthy, bufState, bufOthers, closed,
    \* DiscoveryGateway.statusAggregators
    statusAggregators,
    \* the withRetry call: position, arguments and locals
    pc, target, inTransaction, i, err, invalidTablets, bufferedOnce, result,
    \* history of the call
    iters, bufferCalls, lookups, selected, actionCalls, lastAct, bufErr,
    exit, retryDoneCalls,
    \* dg.mu and the goroutines inside getStatsAggregator and CacheStatus:
    \* the pointer held in the map under each key (0 when there is none), the
    \* number of aggregators created for each key, the last CacheStatus list
    mu, proc, aggrSerial, created, cacheStatus,
    \* the health event whose handler is between its two listener calls, and
    \* what released the parked request, "window" for the window timer or
    \* the tablet of the event (both kept where StatsUpdate is followed call
    \* by call)
    event, releasedBy,
    \* the flags NewDiscoveryGateway reads (-cells_to_watch as its characters,
    \* -tablet_filters as absent, well formed or malformed,
    \* -keyspaces_to_watch as the set of its keyspaces), how far the
    \* construction got, and dg.tabletsWatchers
    cellsToWatch, tabletFilters, keyspacesToWatch, constructed, tabletsWatchers,
    \* the call of WaitForTablets
    waitForTablets,
    \* a call of shuffleTablets on its own: its arguments, the orders it can
    \* leave in the slice and the offsets it reads or writes
    shuffleCall

config == <<retryCount, allowedTabletTypes, routeReplicaToRdonly, known>>
env == <<healthy, bufState, bufOthers, closed>>
locals == <<target, inTransaction, i, err, invalidTablets, bufferedOnce>>
hist == <<iters, bufferCalls, lookups, selected, actionCalls, lastAct, bufErr, exit>>
aggrVars == <<mu, proc, aggrSerial, created, cacheStatus>>
flags == <<cellsToWatch, tabletFilters, keyspacesToWatch>>
gwVars == <<flags, constructed, tabletsWatchers, waitForTablets, shuffleCall>>
vars == <<config, env, statusAggregators, pc, locals, result, hist, retryDoneCalls,
          aggrVars, event, releasedBy, gwVars>>

\* ------------------------------------------------------------ shuffleTablets
\* Slices are indexed from 0 as in the source; tablets[k] is ts[k + 1].
Swap(ts, a, b) == [ts EXCEPT ![a + 1] = ts[b + 1], ![b + 1] = ts[a + 1]]

\* nextTablet: the first offset >= offset whose tablet is (sameCell) or is
\* not (~sameCell) in cell, or -1.
RECURSIVE nextTablet(_, _, _, _, _)
nextTablet(cell, ts, offset, length, sameCell) ==
    IF offset >= length THEN -1
    ELSE IF (TabletCell(ts[offset + 1]) = cell) = sameCell THEN offset
    ELSE nextTablet(cell, ts, offset + 1, length, sameCell)

\* shuffleTablets without its first loop: no same-cell prefix is formed.
moveSameCellSkipped(cell, ts, sameCell, diffCell) == [tablets |-> ts, sameCellMax |-> -1]

\* The first loop of shuffleTablets: moves the same-cell tablets to the
\* front and yields the slice and sameCellMax.
RECURSIVE moveSameCell(_, _, _, _)
moveSameCell(cell, ts, sameCell, diffCell) ==
    LET sameCellMax == diffCell - 1
        s == nextTablet(cell, ts, sameCell, Len(ts), TRUE)
        d == nextTablet(cell, ts, diffCell, Len(ts), FALSE)
    IN  IF s < 0 \/ d < 0 THEN [tablets |-> ts, sameCellMax |-> sameCellMax]
        ELSE IF s < d THEN moveSameCell(cell, ts, d + 1, d)
        ELSE moveSameCell(cell, Swap(ts, s, d), s + 1, d + 1)

\* The second loop drawing its swap partner from the whole slice,
\* rand.Intn(length).
RECURSIVE shuffleSameCellWhole(_, _)
shuffleSameCellWhole(ts, idx) ==
    IF idx <= 0 THEN {ts}
    ELSE UNION {shuffleSameCellWhole(Swap(ts, idx, swap), idx - 1) :
                    swap \in 0..(Len(ts) - 1)}

\* The second loop: every outcome of the draws rand.Intn(k + 1), k = idx..1.
RECURSIVE shuffleSameCell(_, _)
shuffleSameCell(ts, idx) ==
    IF idx <= 0 THEN {ts}
    ELSE UNION {shuffleSameCell(Swap(ts, idx, swap), idx - 1) : swap \in 0..idx}

\* The third loop drawing its swap partner from the whole prefix,
\* rand.Intn(k + 1).
RECURSIVE shuffleDiffCellWhole(_, _, _)
shuffleDiffCellWhole(ts, idx, sameCellMax) ==
    IF idx <= sameCellMax + 1 THEN {ts}
    ELSE UNION {shuffleDiffCellWhole(Swap(ts, idx, swap), idx - 1, sameCellMax) :
                    swap \in 0..idx}

\* The third loop: every outcome of the draws rand.Intn(k - sameCellMax) +
\* diffCellMin, k = idx..diffCellMin + 1.
RECURSIVE shuffleDiffCell(_, _, _)
shuffleDiffCell(ts, idx, sameCellMax) ==
    LET diffCellMin == sameCellMax + 1
    IN  IF idx <= diffCellMin THEN {ts}
        ELSE UNION {shuffleDiffCell(Swap(ts, idx, r + diffCellMin), idx - 1, sameCellMax) :
                        r \in 0..(idx - sameCellMax - 1)}

\* shuffleTablets(cell, tablets): the set of orders it can leave in the slice.
shuffleTablets(cell, ts) ==
    LET m == moveSameCell(cell, ts, 0, 0)
    IN  UNION {shuffleDiffCell(x, Len(ts) - 1, m.sameCellMax) :
                   x \in shuffleSameCell(m.tablets, m.sameCellMax)}

\* The offsets of the slice nextTablet reads.
RECURSIVE nextTabletIndexed(_, _, _, _, _)
nextTabletIndexed(cell, ts, offset, length, sameCell) ==
    IF offset >= length THEN {}
    ELSE IF offset < 0 \/ offset >= Len(ts) THEN {offset}
    ELSE IF (TabletCell(ts[offset + 1]) = cell) = sameCell THEN {offset}
    ELSE {offset} \cup nextTabletIndexed(cell, ts, offset + 1, length, sameCell)

\* The offsets the first loop of shuffleTablets reads or writes.
RECURSIVE moveSameCellIndexed(_, _, _, _)
moveSameCellIndexed(cell, ts, sameCell, diffCell) ==
    LET s == nextTablet(cell, ts, sameCell, Len(ts), TRUE)
        d == nextTablet(cell, ts, diffCell, Len(ts), FALSE)
        reads == nextTabletIndexed(cell, ts, sameCell, Len(ts), TRUE)
                    \cup nextTabletIndexed(cell, ts, diffCell, Len(ts), FALSE)
    IN  IF s < 0 \/ d < 0 THEN reads
        ELSE IF s < d THEN reads \cup moveSameCellIndexed(cell, ts, d + 1, d)
        ELSE reads \cup {s, d} \cup moveSameCellIndexed(cell, Swap(ts, s, d), s + 1, d + 1)

\* The offsets the second loop writes: i and rand.Intn(i + 1) for
\* i = sameCellMax..1.
shuffleSameCellIndexed(sameCellMax) ==
    UNION {{k} \cup {swap : swap \in 0..k} : k \in 1..sameCellMax}

\* The offsets the third loop writes: i and rand.Intn(i - sameCellMax) +
\* diffCellMin for i = length - 1..diffCellMin + 1.
shuffleDiffCellIndexed(length, sameCellMax) ==
    UNION {{k} \cup {r + sameCellMax + 1 : r \in 0..(k - sameCellMax - 1)} :
              k \in (sameCellMax + 2)..(length - 1)}

\* Every offset a call of shuffleTablets can read or write.
shuffleTabletsIndexed(cell, ts) ==
    LET m == moveSameCell(cell, ts, 0, 0)
    IN  moveSameCellIndexed(cell, ts, 0, 0)
            \cup shuffleSameCellIndexed(m.sameCellMax)
            \cup shuffleDiffCellIndexed(Len(ts), m.sameCellMax)

\* The cells a gateway can be in: the cell of t1 and t3, the cell of t2, a
\* cell with no tablet.
Cells == {"a", "b", "c"}

\* The slices of at most MaxSliceLen tablets.
Slices == UNION {[1..n -> Tablets] : n \in 0..MaxSliceLen}

\* No call of shuffleTablets on its own.
NoShuffle == [pc |-> "none", cell |-> "none", tablets |-> <<>>, orders |-> {},
              indexed |-> {}]

\* ------------------------------------------------- tablet stats cache reads
\* The orders in which a bucket's tablets can be listed.
RECURSIVE Orders(_)
Orders(S) ==
    IF S = {} THEN {<<>>}
    ELSE UNION {{<<t>> \o o : o \in Orders(S \ {t})} : t \in S}

\* tsc.GetHealthyTabletStats(keyspace, shard, tabletType): a copy of the
\* bucket, in some order.
GetHealthyTabletStats(tabletType) == Orders(healthy[tabletType])

\* The fallback taken without looking at the flag.
AddRdonlyIgnoresFlag(flag, tabletType) == tabletType = "REPLICA"

\* Whether the RDONLY bucket is appended to the snapshot.
AddRdonly(flag, tabletType) == flag /\ tabletType = "REPLICA"

\* The tablets slice of one attempt.
Snapshots ==
    IF AddRdonly(routeReplicaToRdonly, target)
    THEN {a \o b : a \in GetHealthyTabletStats(target), b \in GetHealthyTabletStats("RDONLY")}
    ELSE GetHealthyTabletStats(target)

\* Selection that forgets the invalid marks.
UntriedAll(ts, invalid) == ts

\* "skip tablets we tried before": the candidates of a shuffled slice that
\* are not marked invalid, in order.
Untried(ts, invalid) == SelectSeq(ts, LAMBDA t : t \notin invalid)

\* ------------------------------------------------------- withRetry helpers
\* The check without the len(AllowedTabletTypes) > 0 guard.
IsAllowedNoEmptyCase(allowed, tabletType) == tabletType \in allowed

\* The AllowedTabletTypes check at the head of withRetry.
IsAllowed(allowed, tabletType) == allowed = {} \/ tabletType \in allowed

\* The loop without its bound.
LoopContinuesAlways(idx, rc) == TRUE

\* The loop condition written i <= dg.retryCount+1.
LoopContinuesOffByOne(idx, rc) == idx <= rc + 1

\* The loop condition i < dg.retryCount+1.
LoopContinues(idx, rc) == idx < rc + 1

\* The condition without the bufferedOnce test.
ShouldBufferAgain(once, inTx, tabletType) == ~inTx /\ tabletType = "MASTER"

\* A gateway that never consults the buffer.
ShouldBufferNever(once, inTx, tabletType) == FALSE

\* The condition without the inTransaction test.
ShouldBufferInTransaction(once, inTx, tabletType) == ~once /\ tabletType = "MASTER"

\* The condition under which an iteration calls buffer.WaitForFailoverEnd.
ShouldBuffer(once, inTx, tabletType) == ~once /\ ~inTx /\ tabletType = "MASTER"

\* NewShardError(err, target): nil stays nil, any other error is wrapped with
\* the target and keeps its code.
NewShardError(e) == IF e = NilErr THEN NilErr ELSE [e EXCEPT !.wrapped = TRUE]

\* The error of the AllowedTabletTypes check, as returned.
PrecheckError == Error("FAILED_PRECONDITION", "precheck")

\* The loop's error returned as it is.
FinalErrorUnwrapped(e) == e

\* The error withRetry returns after the loop.
FinalError(e) == NewShardError(e)

\* A buffer failure that leaves no error.
BufferFailureDropped(bufferErr) == NilErr

\* A buffer failure reported as a failed precondition.
BufferFailurePrecondition(bufferErr) == Error("FAILED_PRECONDITION", "buffer")

\* A buffer failure reported under a fixed code.
BufferFailureUnavailable(bufferErr) == Error("UNAVAILABLE", "buffer")

\* The error kept when a buffer error ends the loop: vterrors.Code(bufferErr).
BufferFailure(bufferErr) == Error(bufferErr.code, "buffer")

\* The loop without the fail-fast test.
EmptySnapshotNever(snap) == FALSE

\* "fail fast if there is no tablet": the test and the error.
EmptySnapshot(snap) == Len(snap) = 0

\* The fail-fast error under the code of a failed precondition.
NoHealthyErrorPrecondition == Error("FAILED_PRECONDITION", "nohealthy")

NoHealthyError == Error("UNAVAILABLE", "nohealthy")

\* The error kept when the selected tablet has no connection.
NoConnectionError == Error("UNAVAILABLE", "noconn")

\* A classification that always continues.
RetriesAlways(canRetry) == TRUE

\* The classification of an action's outcome: continue when it reports
\* retryable, break otherwise.
Retries(canRetry) == canRetry

\* A request that forgets the tablets it tried.
MarkInvalidSkipped(invalid, t) == invalid

\* invalidTablets[ts.Key] = true
MarkInvalid(invalid, t) == invalid \cup {t}

\* The break without the "no available connection" error.
NoCandidateErrorKept(e) == e

\* "no available connection" overriding the error of the last attempt.
NoCandidateErrorOverride(e) == Error("UNAVAILABLE", "nocandidate")

\* The error kept when no untried candidate is left.
NoCandidateError(e) == IF e = NilErr THEN Error("UNAVAILABLE", "nocandidate") ELSE e

\* ------------------------------------------------------- status aggregators
\* getStatsAggregator: the map after the lookup, with a fresh aggregator
\* inserted under key when there was none.
getStatsAggregator(aggrs, key) ==
    IF key \in DOMAIN aggrs THEN aggrs
    ELSE [k \in DOMAIN aggrs \cup {key} |->
             IF k = key THEN [queries |-> 0, errors |-> 0] ELSE aggrs[k]]

\* UpdateQueryInfo called with the error flag always set.
updateStatsErrorAlways(aggrs, key, e) ==
    LET a == getStatsAggregator(aggrs, key)
    IN  [a EXCEPT ![key] = [queries |-> @.queries + 1, errors |-> @.errors + 1]]

\* updateStats: one UpdateQueryInfo on the aggregator of the request's target.
updateStats(aggrs, key, e) ==
    LET a == getStatsAggregator(aggrs, key)
    IN  [a EXCEPT ![key] = [queries |-> @.queries + 1,
                            errors |-> @.errors + (IF e # NilErr THEN 1 ELSE 0)]]

\* ------------------------------------------------------------ collaborators
\* Tablet stats cache, on_event: a serving tablet is in the bucket of its
\* reported type and in no other; a tablet that is not serving is in none.
tscStatsUpdate(index, t, tabletType, serving) ==
    [r \in TabletTypes |->
        IF serving /\ r = tabletType THEN index[r] \cup {t} ELSE index[r] \ {t}]

\* Failover buffer: whether an error looks like a failover signal.
CausedByFailover(e) == e.src = "action" /\ e.code = "FAILED_PRECONDITION"

\* Entries parked in the shard's buffer.
Buffered == bufOthers + (IF pc = "parked" THEN 1 ELSE 0)

\* Failover buffer, admission: what WaitForFailoverEnd does with a request.
BufferAdmission(e) ==
    IF closed THEN "shutdown"
    ELSE IF bufState = "idle" THEN (IF CausedByFailover(e) THEN "park" ELSE "skip")
    ELSE IF bufState = "draining" THEN "skip"
    ELSE IF Buffered < BufferSizePerShard THEN "park"
    ELSE "full"

\* Failover buffer: the error of a refused or abandoned wait. A full or shut
\* down buffer answers UNAVAILABLE; an expired deadline surfaces the error the
\* request came with.
BufferError(kind, e) ==
    Error(IF kind = "deadline" /\ e # NilErr THEN e.code ELSE "UNAVAILABLE", kind)

\* Failover buffer, release: the state after every waiter is awoken.
Released == IF pc = "parked" THEN "draining" ELSE "idle"

\* Failover buffer, on a health event of a MASTER tablet.
bufferStatsUpdate(state, serving) ==
    IF closed THEN state
    ELSE IF state = "idle" /\ ~serving THEN "buffering"
    ELSE IF state = "buffering" /\ serving THEN Released
    ELSE state

\* No health event is being handled.
NoEvent == [t |-> "none", tabletType |-> "none", serving |-> FALSE, next |-> 0]

\* ------------------------------------------------------ NewDiscoveryGateway
\* The characters of a -cells_to_watch value.
CellChars == {"a", "b", ","}

\* The -cells_to_watch values of at most MaxCellsLen characters.
CellsValues == UNION {[1..n -> CellChars] : n \in 0..MaxCellsLen}

\* The keyspaces of the topology: the one of the shard whose requests are
\* followed, and another one that has no tablet.
Keyspaces == {"ks", "other"}

\* discovery.FilteringKeyspaces(): -keyspaces_to_watch is set.
FilteringKeyspaces == keyspacesToWatch # {}

\* -tablet_filters: not given, given and well formed, given and malformed.
TabletFiltersValues == {"none", "valid", "invalid"}

\* The position of the first comma of str, 0 when it has none.
FirstComma(str) ==
    IF \E k \in 1..Len(str) : str[k] = ","
    THEN CHOOSE k \in 1..Len(str) :
            str[k] = "," /\ \A j \in 1..(k - 1) : str[j] # ","
    ELSE 0

\* strings.Split(cells, ","): the pieces between the commas, the empty ones
\* included; one empty piece for the empty string.
RECURSIVE Split(_)
Split(str) ==
    IF FirstComma(str) = 0
    THEN <<str>>
    ELSE <<SubSeq(str, 1, FirstComma(str) - 1)>>
            \o Split(SubSeq(str, FirstComma(str) + 1, Len(str)))

\* A loop that watches every piece, the empty ones too.
SkipsCellNever(c) == FALSE

\* "if c == "" { continue }"
SkipsCell(c) == c = <<>>

\* The loop over the pieces of -cells_to_watch: the watchers appended to
\* dg.tabletsWatchers, each with its cell and its recorder, or the log.Exitf
\* that ends the process.
RECURSIVE WatchCells(_, _, _, _)
WatchCells(cells, filters, filtering, watchers) ==
    IF cells = <<>>
    THEN [fatal |-> "none", watchers |-> watchers]
    ELSE LET c == Head(cells)
         IN  IF SkipsCell(c)
             THEN WatchCells(Tail(cells), filters, filtering, watchers)
             ELSE IF filters # "none"
             THEN IF filtering
                  THEN [fatal |-> "both", watchers |-> watchers]
                  ELSE IF filters = "invalid"
                  THEN [fatal |-> "parse", watchers |-> watchers]
                  ELSE WatchCells(Tail(cells), filters, filtering,
                          Append(watchers, [cell |-> c, recorder |-> "FilterByShard"]))
             ELSE IF filtering
             THEN WatchCells(Tail(cells), filters, filtering,
                     Append(watchers, [cell |-> c, recorder |-> "FilterByKeyspace"]))
             ELSE WatchCells(Tail(cells), filters, filtering,
                     Append(watchers, [cell |-> c, recorder |-> "hc"]))

\* The flags of the gateways whose requests are followed: two cells watched,
\* no filter.
DefaultCells == <<"a", ",", "b">>

\* No call of WaitForTablets has been made.
NoWait == [pc |-> "idle", types |-> {}, targets |-> {}, result |-> "none",
           topoCalls |-> 0, cacheCalls |-> 0]

\* ----------------------------------------------------------------- Init
\* The state after NewDiscoveryGateway, whatever the configuration: nothing
\* is known healthy yet, the buffer is idle, no request is running.
Constructed ==
    /\ healthy = [r \in TabletTypes |-> {}]
    /\ bufState = "idle"
    /\ bufOthers = 0
    /\ closed = FALSE
    /\ statusAggregators = [k \in {} |-> [queries |-> 0, errors |-> 0]]
    /\ pc = "idle"
    /\ target = "none"
    /\ inTransaction = FALSE
    /\ i = 0
    /\ err = NilErr
    /\ invalidTablets = {}
    /\ bufferedOnce = FALSE
    /\ result = NilErr
    /\ iters = 0
    /\ bufferCalls = 0
    /\ lookups = 0
    /\ selected = [t \in Tablets |-> 0]
    /\ actionCalls = [t \in Tablets |-> 0]
    /\ lastAct = [tablet |-> "none", canRetry |-> FALSE, err |-> NilErr]
    /\ bufErr = NilErr
    /\ exit = "none"
    /\ retryDoneCalls = 0
    /\ mu = [readers |-> {}, writer |-> "none"]
    /\ proc = [p \in Procs |-> [pc |-> "idle", key |-> "none", aggr |-> 0,
                                 via |-> "none", calls |-> 0]]
    /\ aggrSerial = [k \in TabletTypes |-> 0]
    /\ created = [k \in TabletTypes |-> 0]
    /\ cacheStatus = <<>>
    /\ event = NoEvent
    /\ releasedBy = "none"
    /\ waitForTablets = NoWait

\* The construction has returned the gateway with its watchers.
Returned ==
    /\ cellsToWatch = DefaultCells
    /\ tabletFilters = "none"
    /\ keyspacesToWatch = {}
    /\ constructed = "returned"
    /\ tabletsWatchers = WatchCells(Split(DefaultCells), "none", FALSE, <<>>).watchers

\* Every configuration, over a shard of two tablets, one in each cell.
Init ==
    /\ retryCount \in -1..MaxRetryCount
    /\ allowedTabletTypes \in AllowedChoices
    /\ routeReplicaToRdonly \in BOOLEAN
    /\ known = TwoTablets
    /\ Constructed
    /\ shuffleCall = NoShuffle
    /\ Returned

\* The default configuration (gateway_retry_count 2, every type allowed, no
\* RDONLY fallback) over a shard of three tablets.
InitThree ==
    /\ retryCount = 2
    /\ allowedTabletTypes = {}
    /\ routeReplicaToRdonly = FALSE
    /\ known = Tablets
    /\ Constructed
    /\ shuffleCall = NoShuffle
    /\ Returned

\* ------------------------------------------------------------- withRetry
\* A withRetry that never defers retryDone.
DeferredRetryDoneNever(once) == 0

\* The calls of retryDone deferred to the return of withRetry: "defer
\* retryDone()" is reached exactly when bufferedOnce is set.
DeferredRetryDone(once) == IF once THEN 1 ELSE 0

\* "return NewShardError(err, target)" after the loop, with the deferred
\* retryDone of a buffered request.
Finish(e, how) ==
    /\ pc' = "done"
    /\ exit' = how
    /\ err' = e
    /\ result' = FinalError(e)
    /\ retryDoneCalls' = retryDoneCalls + DeferredRetryDone(bufferedOnce)
    /\ bufState' = IF bufferedOnce /\ bufState = "draining" THEN "idle" ELSE bufState

\* "continue": the next iteration if the loop condition allows one.
Continue(e) ==
    /\ i' = i + 1
    /\ IF LoopContinues(i + 1, retryCount)
       THEN /\ pc' = "loop"
            /\ err' = e
            /\ UNCHANGED <<result, retryDoneCalls, bufState, exit>>
       ELSE Finish(e, "exhausted")

\* A call of withRetry up to the loop: the AllowedTabletTypes check.
Execute(tabletType, inTx) ==
    /\ UNCHANGED <<aggrVars, gwVars, event, releasedBy>>
    /\ pc = "idle"
    /\ target' = tabletType
    /\ inTransaction' = inTx
    /\ IF ~IsAllowed(allowedTabletTypes, tabletType)
       THEN /\ pc' = "done"
            /\ exit' = "precheck"
            /\ result' = PrecheckError
            /\ UNCHANGED <<err, retryDoneCalls, bufState>>
       ELSE IF LoopContinues(0, retryCount)
       THEN /\ pc' = "loop"
            /\ UNCHANGED <<err, result, retryDoneCalls, bufState, exit>>
       ELSE Finish(NilErr, "exhausted")
    /\ UNCHANGED <<config, healthy, bufOthers, closed, statusAggregators,
                   i, invalidTablets, bufferedOnce,
                   iters, bufferCalls, lookups, selected, actionCalls, lastAct, bufErr>>

\* The head of an iteration of a request that may be buffered: the call of
\* buffer.WaitForFailoverEnd, up to its return or to the point it blocks.
BufferStep ==
    /\ UNCHANGED <<aggrVars, gwVars, event, releasedBy>>
    /\ pc = "loop"
    /\ ShouldBuffer(bufferedOnce, inTransaction, target)
    /\ iters' = iters + 1
    /\ bufferCalls' = bufferCalls + 1
    /\ LET a == BufferAdmission(err)
       IN  \/ /\ a = "skip"
              /\ pc' = "select"
              /\ UNCHANGED <<err, result, retryDoneCalls, bufState, bufErr, exit>>
           \/ /\ a = "park"
              /\ pc' = "parked"
              /\ bufState' = "buffering"
              /\ UNCHANGED <<err, result, retryDoneCalls, bufErr, exit>>
           \/ /\ a \in {"full", "shutdown"}
              /\ bufErr' = BufferError(a, err)
              /\ Finish(BufferFailure(BufferError(a, err)), "buffer")
    /\ UNCHANGED <<config, healthy, bufOthers, closed, statusAggregators,
                   target, inTransaction, i, invalidTablets, bufferedOnce,
                   lookups, selected, actionCalls, lastAct>>

\* WaitForFailoverEnd returns to a parked request: released with a retryDone
\* handle, or awoken by the shutdown with an error.
WaitReturn ==
    /\ UNCHANGED <<aggrVars, gwVars, event, releasedBy>>
    /\ pc = "parked"
    /\ \/ /\ ~closed
          /\ bufState = "draining"
          /\ pc' = "select"
          /\ bufferedOnce' = TRUE
          /\ UNCHANGED <<err, result, retryDoneCalls, bufState, bufErr, exit>>
       \/ /\ closed
          /\ bufErr' = BufferError("shutdown", err)
          /\ Finish(BufferFailure(BufferError("shutdown", err)), "buffer")
          /\ UNCHANGED bufferedOnce
    /\ UNCHANGED <<config, healthy, bufOthers, closed, statusAggregators,
                   target, inTransaction, i, invalidTablets,
                   iters, bufferCalls, lookups, selected, actionCalls, lastAct>>

\* The caller's deadline expires while the request is parked.
DeadlineExpires ==
    /\ UNCHANGED <<aggrVars, gwVars, event, releasedBy>>
    /\ pc = "parked"
    /\ ~closed
    /\ bufState = "buffering"
    /\ bufErr' = BufferError("deadline", err)
    /\ Finish(BufferFailure(BufferError("deadline", err)), "buffer")
    /\ UNCHANGED <<config, healthy, bufOthers, closed, statusAggregators,
                   target, inTransaction, i, invalidTablets, bufferedOnce,
                   iters, bufferCalls, lookups, selected, actionCalls, lastAct>>

\* hc.GetConnection(key): the health check's client for the tablet, or nil
\* when it has no live subscription to it (a tablet can still be listed by
\* the stats cache after the health check dropped it).
GetConnection(t) == {"conn", "nil"}

\* The outcomes an action (the inner function) can report.
ActionErrors == {NilErr} \cup {Error(c, "action") : c \in Codes}

\* The rest of an iteration: snapshot, shuffle, selection, GetConnection,
\* the action, updateStats and the classification.
SelectStep ==
    /\ UNCHANGED <<aggrVars, gwVars, event, releasedBy>>
    /\ \/ pc = "select"
       \/ pc = "loop" /\ ~ShouldBuffer(bufferedOnce, inTransaction, target)
    /\ iters' = IF pc = "loop" THEN iters + 1 ELSE iters
    /\ lookups' = lookups + 1
    /\ \E snap \in Snapshots :
          IF EmptySnapshot(snap)
          THEN /\ Finish(NoHealthyError, "nohealthy")
               /\ UNCHANGED <<i, invalidTablets, selected, actionCalls, lastAct,
                              statusAggregators>>
          ELSE \E sh \in shuffleTablets(LocalCell, snap) :
                 LET u == Untried(sh, invalidTablets)
                 IN  IF u = <<>>
                     THEN /\ Finish(NoCandidateError(err), "nocandidate")
                          /\ UNCHANGED <<i, invalidTablets, selected, actionCalls,
                                         lastAct, statusAggregators>>
                     ELSE LET ts == u[1]
                          IN  /\ selected' = [selected EXCEPT ![ts] = @ + 1]
                              /\ \E conn \in GetConnection(ts) :
                                 IF conn = "nil"
                                 THEN /\ invalidTablets' = MarkInvalid(invalidTablets, ts)
                                      /\ Continue(NoConnectionError)
                                      /\ UNCHANGED <<actionCalls, lastAct, statusAggregators>>
                                 ELSE \E canRetry \in BOOLEAN, e \in ActionErrors :
                                        /\ actionCalls' = [actionCalls EXCEPT ![ts] = @ + 1]
                                        /\ lastAct' = [tablet |-> ts, canRetry |-> canRetry,
                                                       err |-> e]
                                        /\ statusAggregators' =
                                               updateStats(statusAggregators, target, e)
                                        /\ IF Retries(canRetry)
                                           THEN /\ invalidTablets' = MarkInvalid(invalidTablets, ts)
                                                /\ Continue(e)
                                           ELSE /\ Finish(e, "action")
                                                /\ UNCHANGED <<i, invalidTablets>>
    /\ UNCHANGED <<config, healthy, bufOthers, closed,
                   target, inTransaction, bufferedOnce, bufferCalls, bufErr>>

\* ------------------------------------------------------------ health events
\* The elements of a list.
Range(seq) == {seq[n] : n \in 1..Len(seq)}

\* A gateway that tells the buffer before the cache.
ListenersBufferFirst(tabletType) ==
    IF tabletType = "MASTER" THEN <<"buffer", "tsc">> ELSE <<"tsc">>

\* A gateway that hands the events of a MASTER target to the buffer alone.
ListenersBufferOnly(tabletType) ==
    IF tabletType = "MASTER" THEN <<"buffer">> ELSE <<"tsc">>

\* A gateway that hands every event to the buffer.
ListenersBufferAlways(tabletType) == <<"tsc", "buffer">>

\* The components StatsUpdate hands an event to, in the order of the calls:
\* the tablet stats cache, then the buffer for an event of a MASTER target.
Listeners(tabletType) ==
    IF tabletType = "MASTER" THEN <<"tsc", "buffer">> ELSE <<"tsc">>

\* The parked request is released by the buffer's change of state.
ReleasesRequest(old, new) == pc = "parked" /\ old = "buffering" /\ new = "draining"

\* DiscoveryGateway.StatsUpdate(ts): the event goes to the tablet stats cache
\* and, for a MASTER target, to the buffer.
StatsUpdate(t, tabletType, serving) ==
    /\ UNCHANGED <<aggrVars, gwVars, event, releasedBy>>
    /\ t \in known
    /\ event = NoEvent
    /\ healthy' = IF "tsc" \in Range(Listeners(tabletType))
                  THEN tscStatsUpdate(healthy, t, tabletType, serving)
                  ELSE healthy
    /\ IF "buffer" \in Range(Listeners(tabletType))
       THEN /\ bufState' = bufferStatsUpdate(bufState, serving)
            /\ bufOthers' = IF bufState' = "buffering" THEN bufOthers ELSE 0
       ELSE UNCHANGED <<bufState, bufOthers>>
    /\ UNCHANGED <<config, closed, statusAggregators, pc, locals, result,
                   hist, retryDoneCalls>>

\* One listener call of StatsUpdate: dg.tsc.StatsUpdate(ts) or
\* dg.buffer.StatsUpdate(ts).
Deliver(listener, t, tabletType, serving) ==
    IF listener = "tsc"
    THEN /\ healthy' = tscStatsUpdate(healthy, t, tabletType, serving)
         /\ UNCHANGED <<bufState, bufOthers, releasedBy>>
    ELSE /\ bufState' = bufferStatsUpdate(bufState, serving)
         /\ bufOthers' = IF bufState' = "buffering" THEN bufOthers ELSE 0
         /\ releasedBy' = IF ReleasesRequest(bufState, bufState') THEN t ELSE releasedBy
         /\ UNCHANGED healthy

\* StatsUpdate(ts) followed call by call, so that requests run between its
\* two listener calls: the first call.
StatsUpdateCall(t, tabletType, serving) ==
    /\ t \in known
    /\ event = NoEvent
    /\ LET ls == Listeners(tabletType)
       IN  /\ Deliver(ls[1], t, tabletType, serving)
           /\ event' = IF Len(ls) > 1
                       THEN [t |-> t, tabletType |-> tabletType, serving |-> serving,
                             next |-> 2]
                       ELSE NoEvent
    /\ UNCHANGED <<config, closed, statusAggregators, pc, locals, result,
                   hist, retryDoneCalls, aggrVars, gwVars>>

\* StatsUpdate(ts) followed call by call: the second call and the return.
StatsUpdateNext ==
    /\ event # NoEvent
    /\ LET ls == Listeners(event.tabletType)
       IN  /\ Deliver(ls[event.next], event.t, event.tabletType, event.serving)
           /\ event' = IF event.next < Len(ls)
                       THEN [event EXCEPT !.next = @ + 1]
                       ELSE NoEvent
    /\ UNCHANGED <<config, closed, statusAggregators, pc, locals, result,
                   hist, retryDoneCalls, aggrVars, gwVars>>

\* Failover buffer: the window timer of the shard expires.
WindowExpires ==
    /\ UNCHANGED <<aggrVars, gwVars, event, releasedBy>>
    /\ ~closed
    /\ bufState = "buffering"
    /\ bufState' = Released
    /\ bufOthers' = 0
    /\ UNCHANGED <<config, healthy, closed, statusAggregators, pc, locals,
                   result, hist, retryDoneCalls>>

\* The expiry of the window where the cause of a release is kept: a parked
\* request is recorded as released by the window.
WindowExpiresRecorded ==
    /\ UNCHANGED <<aggrVars, gwVars, event>>
    /\ ~closed
    /\ bufState = "buffering"
    /\ bufState' = Released
    /\ bufOthers' = 0
    /\ releasedBy' = IF ReleasesRequest(bufState, bufState') THEN "window" ELSE releasedBy
    /\ UNCHANGED <<config, healthy, closed, statusAggregators, pc, locals,
                   result, hist, retryDoneCalls>>

\* Failover buffer: another request of the shard is admitted.
OtherRequestBuffered ==
    /\ UNCHANGED <<aggrVars, gwVars, event, releasedBy>>
    /\ ~closed
    /\ bufState = "buffering"
    /\ Buffered < BufferSizePerShard
    /\ bufOthers' = bufOthers + 1
    /\ UNCHANGED <<config, healthy, bufState, closed, statusAggregators, pc,
                   locals, result, hist, retryDoneCalls>>

\* DiscoveryGateway.Close: shuts the buffer down and stops the watchers.
Close ==
    /\ UNCHANGED <<aggrVars, gwVars, event, releasedBy>>
    /\ ~closed
    /\ closed' = TRUE
    /\ bufState' = "idle"
    /\ bufOthers' = 0
    /\ UNCHANGED <<config, healthy, statusAggregators, pc, locals, result,
                   hist, retryDoneCalls>>

\* ------------------------------------- getStatsAggregator and CacheStatus
\* The steps of getStatsAggregator and CacheStatus, taken by concurrent
\* goroutines under dg.mu. A read lock is granted while no writer holds the
\* mutex, the write lock while nobody holds it.
withRetryVars == <<config, env, pc, locals, result, hist, retryDoneCalls,
                   event, releasedBy, gwVars>>

\* The second lookup taken for a miss whatever the map holds.
FoundAgainNever(aggrs, key) == FALSE

\* The second lookup, under the write lock: "check again before the creation".
FoundAgain(aggrs, key) == key \in DOMAIN aggrs

\* dg.statusAggregators[key] = aggr
InsertAggregator(aggrs, key) ==
    [k \in DOMAIN aggrs \cup {key} |->
        IF k = key THEN [queries |-> 0, errors |-> 0] ELSE aggrs[k]]

\* A read section that leaves without releasing the mutex.
RUnlockSkipped(m, p) == m

\* dg.mu.RUnlock()
RUnlock(m, p) == [m EXCEPT !.readers = @ \ {p}]

\* getStatsAggregator, dg.mu.RLock().
GsaRLock(p, key) ==
    /\ proc[p].pc = "idle"
    /\ proc[p].calls < MaxAggrCalls
    /\ mu.writer = "none"
    /\ mu' = [mu EXCEPT !.readers = @ \cup {p}]
    /\ proc' = [proc EXCEPT ![p] = [pc |-> "rlocked", key |-> key, aggr |-> 0,
                                     via |-> "none", calls |-> @.calls + 1]]
    /\ UNCHANGED <<withRetryVars, statusAggregators, aggrSerial, created, cacheStatus>>

\* The first lookup and dg.mu.RUnlock(): a hit returns the aggregator, a
\* miss goes on to the write lock.
GsaLookup(p) ==
    /\ proc[p].pc = "rlocked"
    /\ mu' = RUnlock(mu, p)
    /\ IF proc[p].key \in DOMAIN statusAggregators
       THEN proc' = [proc EXCEPT ![p].pc = "returned",
                                 ![p].aggr = aggrSerial[proc[p].key],
                                 ![p].via = "hit"]
       ELSE proc' = [proc EXCEPT ![p].pc = "lock"]
    /\ UNCHANGED <<withRetryVars, statusAggregators, aggrSerial, created, cacheStatus>>

\* dg.mu.Lock()
GsaLock(p) ==
    /\ proc[p].pc = "lock"
    /\ mu.readers = {}
    /\ mu.writer = "none"
    /\ mu' = [mu EXCEPT !.writer = p]
    /\ proc' = [proc EXCEPT ![p].pc = "locked"]
    /\ UNCHANGED <<withRetryVars, statusAggregators, aggrSerial, created, cacheStatus>>

\* The second lookup, the creation and insertion on a miss, and the deferred
\* dg.mu.Unlock().
GsaInsert(p) ==
    /\ proc[p].pc = "locked"
    /\ mu' = [mu EXCEPT !.writer = "none"]
    /\ LET key == proc[p].key
       IN  IF FoundAgain(statusAggregators, key)
           THEN /\ proc' = [proc EXCEPT ![p].pc = "returned",
                                         ![p].aggr = aggrSerial[key],
                                         ![p].via = "recheck"]
                /\ UNCHANGED <<statusAggregators, aggrSerial, created>>
           ELSE /\ created' = [created EXCEPT ![key] = @ + 1]
                /\ aggrSerial' = [aggrSerial EXCEPT ![key] = created[key] + 1]
                /\ statusAggregators' = InsertAggregator(statusAggregators, key)
                /\ proc' = [proc EXCEPT ![p].pc = "returned",
                                         ![p].aggr = created[key] + 1,
                                         ![p].via = "created"]
    /\ UNCHANGED <<withRetryVars, cacheStatus>>

\* The caller has its aggregator and is done with the call.
GsaReturn(p) ==
    /\ proc[p].pc = "returned"
    /\ proc' = [proc EXCEPT ![p].pc = "idle"]
    /\ UNCHANGED <<withRetryVars, statusAggregators, mu, aggrSerial, created, cacheStatus>>

\* CacheStatus, dg.mu.RLock().
CacheStatusRLock(p) ==
    /\ proc[p].pc = "idle"
    /\ proc[p].calls < MaxAggrCalls
    /\ mu.writer = "none"
    /\ mu' = [mu EXCEPT !.readers = @ \cup {p}]
    /\ proc' = [proc EXCEPT ![p].pc = "status", ![p].calls = @ + 1]
    /\ UNCHANGED <<withRetryVars, statusAggregators, aggrSerial, created, cacheStatus>>

\* CacheStatus: one entry per aggregator of the map, in the map's iteration
\* order, and dg.mu.RUnlock().
CacheStatusRead(p) ==
    /\ proc[p].pc = "status"
    /\ mu' = RUnlock(mu, p)
    /\ \E res \in Orders(DOMAIN statusAggregators) : cacheStatus' = res
    /\ proc' = [proc EXCEPT ![p].pc = "idle"]
    /\ UNCHANGED <<withRetryVars, statusAggregators, aggrSerial, created>>

NextAggr ==
    \/ \E p \in Procs, key \in TabletTypes : GsaRLock(p, key)
    \/ \E p \in Procs : GsaLookup(p)
    \/ \E p \in Procs : GsaLock(p)
    \/ \E p \in Procs : GsaInsert(p)
    \/ \E p \in Procs : GsaReturn(p)
    \/ \E p \in Procs : CacheStatusRLock(p)
    \/ \E p \in Procs : CacheStatusRead(p)

\* ------------------------------------------------------------ specification
Next ==
    \/ \E tabletType \in TabletTypes, inTx \in BOOLEAN : Execute(tabletType, inTx)
    \/ BufferStep
    \/ WaitReturn
    \/ DeadlineExpires
    \/ SelectStep
    \/ \E t \in Tablets, tabletType \in TabletTypes, serving \in BOOLEAN :
          StatsUpdate(t, tabletType, serving)
    \/ WindowExpires
    \/ OtherRequestBuffered
    \/ Close

Spec == Init /\ [][Next]_vars

SpecThree == InitThree /\ [][Next]_vars

\* The gateway with one retry over a shard of two tablets, every type
\* allowed, no RDONLY fallback.
InitEvents ==
    /\ retryCount = 1
    /\ allowedTabletTypes = {}
    /\ routeReplicaToRdonly = FALSE
    /\ known = TwoTablets
    /\ Constructed
    /\ shuffleCall = NoShuffle
    /\ Returned

\* The gateway with StatsUpdate followed call by call.
NextEvents ==
    \/ \E tabletType \in TabletTypes, inTx \in BOOLEAN : Execute(tabletType, inTx)
    \/ BufferStep
    \/ WaitReturn
    \/ DeadlineExpires
    \/ SelectStep
    \/ \E t \in Tablets, tabletType \in TabletTypes, serving \in BOOLEAN :
          StatsUpdateCall(t, tabletType, serving)
    \/ StatsUpdateNext
    \/ WindowExpiresRecorded
    \/ OtherRequestBuffered
    \/ Close

SpecEvents == InitEvents /\ [][NextEvents]_vars

\* NewDiscoveryGateway(ctx, hc, serv, cell, retryCount) under the flags of
\* the process: it returns the gateway with one watcher appended for each
\* piece of -cells_to_watch the loop does not skip, or the process exits.
NewDiscoveryGateway ==
    /\ constructed = "no"
    /\ LET r == WatchCells(Split(cellsToWatch), tabletFilters, FilteringKeyspaces, <<>>)
       IN  /\ constructed' = IF r.fatal = "none" THEN "returned" ELSE r.fatal
           /\ tabletsWatchers' = r.watchers
    /\ UNCHANGED <<config, env, statusAggregators, pc, locals, result, hist,
                   retryDoneCalls, aggrVars, event, releasedBy, flags, waitForTablets,
                   shuffleCall>>

\* Every value of the flags, before the construction.
InitNew ==
    /\ cellsToWatch \in CellsValues
    /\ tabletFilters \in TabletFiltersValues
    /\ keyspacesToWatch \in SUBSET Keyspaces
    /\ constructed = "no"
    /\ tabletsWatchers = <<>>
    /\ retryCount = 2
    /\ allowedTabletTypes = {}
    /\ routeReplicaToRdonly = FALSE
    /\ known = TwoTablets
    /\ Constructed
    /\ shuffleCall = NoShuffle

NextNew == NewDiscoveryGateway

SpecNew == InitNew /\ [][NextNew]_vars

\* --------------------------------------------------------- WaitForTablets
\* srvtopo.FindAllTargets(ctx, serv, cell, tabletTypesToWait): a target for
\* every keyspace of the topology and every type asked for.
FindAllTargets(tabletTypesToWait) ==
    {[keyspace |-> k, tabletType |-> r] : k \in Keyspaces, r \in tabletTypesToWait}

\* discovery.FilterTargetsByKeyspaces(KeyspacesToWatch, targets): every
\* target when no keyspace is watched, the targets of the watched keyspaces
\* otherwise.
FilterTargetsByKeyspaces(keyspaces, targets) ==
    IF keyspaces = {} THEN targets
    ELSE {tg \in targets : tg.keyspace \in keyspaces}

\* The stats cache lists a healthy tablet for the target.
HasHealthyTablet(tg) == tg.keyspace = "ks" /\ healthy[tg.tabletType] # {}

\* A WaitForTablets that goes to the topology whatever it is asked.
SkipsWaitNever(tabletTypesToWait) == FALSE

\* "if len(tabletTypesToWait) == 0 { return nil }"
SkipsWait(tabletTypesToWait) == Cardinality(tabletTypesToWait) = 0

\* WaitForTablets(ctx, tabletTypesToWait) up to its return or to the point
\* where tsc.WaitForAllServingTablets blocks; findErr says whether
\* FindAllTargets fails.
WaitForTablets(tabletTypesToWait, findErr) ==
    /\ waitForTablets.pc = "idle"
    /\ waitForTablets' =
          IF SkipsWait(tabletTypesToWait)
          THEN [waitForTablets EXCEPT !.pc = "done", !.types = tabletTypesToWait,
                                      !.result = "nil"]
          ELSE IF findErr
          THEN [waitForTablets EXCEPT !.pc = "done", !.types = tabletTypesToWait,
                                      !.result = "topo", !.topoCalls = @ + 1]
          ELSE [pc |-> "waiting", types |-> tabletTypesToWait,
                targets |-> FilterTargetsByKeyspaces(keyspacesToWatch,
                                FindAllTargets(tabletTypesToWait)),
                result |-> "none",
                topoCalls |-> waitForTablets.topoCalls + 1,
                cacheCalls |-> waitForTablets.cacheCalls + 1]
    /\ UNCHANGED <<config, env, statusAggregators, pc, locals, result, hist,
                   retryDoneCalls, aggrVars, event, releasedBy, flags, constructed,
                   tabletsWatchers, shuffleCall>>

\* tsc.WaitForAllServingTablets returns nil: every target it was given has a
\* healthy tablet.
WaitServing ==
    /\ waitForTablets.pc = "waiting"
    /\ \A tg \in waitForTablets.targets : HasHealthyTablet(tg)
    /\ waitForTablets' = [waitForTablets EXCEPT !.pc = "done", !.result = "nil"]
    /\ UNCHANGED <<config, env, statusAggregators, pc, locals, result, hist,
                   retryDoneCalls, aggrVars, event, releasedBy, flags, constructed,
                   tabletsWatchers, shuffleCall>>

\* tsc.WaitForAllServingTablets returns the context's error: the context was
\* cancelled while a target had no healthy tablet.
WaitCancelled ==
    /\ waitForTablets.pc = "waiting"
    /\ waitForTablets' = [waitForTablets EXCEPT !.pc = "done", !.result = "cancelled"]
    /\ UNCHANGED <<config, env, statusAggregators, pc, locals, result, hist,
                   retryDoneCalls, aggrVars, event, releasedBy, flags, constructed,
                   tabletsWatchers, shuffleCall>>

\* A returned gateway under every value of -keyspaces_to_watch, over a shard
\* of two tablets.
InitWait ==
    /\ cellsToWatch = DefaultCells
    /\ tabletFilters = "none"
    /\ keyspacesToWatch \in SUBSET Keyspaces
    /\ constructed = "returned"
    /\ tabletsWatchers =
          WatchCells(Split(DefaultCells), "none", FilteringKeyspaces, <<>>).watchers
    /\ retryCount = 2
    /\ allowedTabletTypes = {}
    /\ routeReplicaToRdonly = FALSE
    /\ known = TwoTablets
    /\ Constructed
    /\ shuffleCall = NoShuffle

\* WaitForTablets while health events arrive.
NextWait ==
    \/ \E tabletTypesToWait \in SUBSET TabletTypes, findErr \in BOOLEAN :
          WaitForTablets(tabletTypesToWait, findErr)
    \/ WaitServing
    \/ WaitCancelled
    \/ \E t \in Tablets, tabletType \in TabletTypes, serving \in BOOLEAN :
          StatsUpdate(t, tabletType, serving)

SpecWait == InitWait /\ [][NextWait]_vars

\* ---------------------------------------------- shuffleTablets on its own
\* shuffleTablets(cell, tablets) applied to the slice of the call.
ShuffleTablets ==
    /\ shuffleCall.pc = "call"
    /\ shuffleCall' =
          [shuffleCall EXCEPT
              !.pc = "returned",
              !.orders = shuffleTablets(shuffleCall.cell, shuffleCall.tablets),
              !.indexed = shuffleTabletsIndexed(shuffleCall.cell, shuffleCall.tablets)]
    /\ UNCHANGED <<config, env, statusAggregators, pc, locals, result, hist,
                   retryDoneCalls, aggrVars, event, releasedBy, flags, constructed,
                   tabletsWatchers, waitForTablets>>

\* Every slice and every local cell, before the call.
InitShuffle ==
    /\ shuffleCall \in {[pc |-> "call", cell |-> c, tablets |-> ts, orders |-> {},
                          indexed |-> {}] : c \in Cells, ts \in Slices}
    /\ retryCount = 2
    /\ allowedTabletTypes = {}
    /\ routeReplicaToRdonly = FALSE
    /\ known = Tablets
    /\ Constructed
    /\ Returned

NextShuffle == ShuffleTablets

SpecShuffle == InitShuffle /\ [][NextShuffle]_vars

\* The gateway whose goroutines keep running: a call that can take its next
\* step takes it (the buffer's wait returns once the request is released or
\* the buffer shut down, every action invocation returns), and the window
\* timer of a buffering shard fires.
Fairness ==
    /\ WF_vars(BufferStep)
    /\ WF_vars(WaitReturn)
    /\ WF_vars(SelectStep)
    /\ WF_vars(WindowExpires)

SpecLive == InitEvents /\ [][Next]_vars /\ Fairness

\* The gateway over a shard of one tablet.
InitLocks ==
    /\ retryCount = 1
    /\ allowedTabletTypes = {}
    /\ routeReplicaToRdonly = FALSE
    /\ known = {"t1"}
    /\ Constructed
    /\ shuffleCall = NoShuffle
    /\ Returned

\* Goroutines in getStatsAggregator (the updateStats of their withRetry) and
\* in CacheStatus while health events are handled.
NextLocks ==
    \/ NextAggr
    \/ \E t \in Tablets, tabletType \in TabletTypes, serving \in BOOLEAN :
          StatsUpdate(t, tabletType, serving)

SpecLocks == InitLocks /\ [][NextLocks]_vars

\* Concurrent callers of getStatsAggregator and CacheStatus on a gateway in
\* its default configuration.
SpecAggr == InitThree /\ [][NextAggr]_vars

\* ------------------------------------------------------------------ claims
\* Number of action invocations and of tablet selections of the call.
RECURSIVE SumOver(_, _)
SumOver(f, S) ==
    IF S = {} THEN 0
    ELSE LET t == CHOOSE x \in S : TRUE IN f[t] + SumOver(f, S \ {t})

ActionCount == SumOver(actionCalls, Tablets)

SelectedCount == SumOver(selected, Tablets)

\* An error as the caller sees it once it carries the target.
WrappedWithTarget(e) == IF e = NilErr THEN NilErr ELSE [e EXCEPT !.wrapped = TRUE]

\* The healthy tablets an attempt of the request has to choose from.
CandidateSet ==
    healthy[target] \cup
        (IF routeReplicaToRdonly /\ target = "REPLICA" THEN healthy["RDONLY"] ELSE {})

\* The allowed-types filter excludes the role of the request.
RoleExcluded == allowedTabletTypes # {} /\ target \notin allowedTabletTypes

\* The last action invocation reported retryable = false.
LastActionFinal == lastAct.tablet # "none" /\ ~lastAct.canRetry

\* C1: with retry_count >= 0 the loop runs at most retry_count + 1 iterations
\* and the action is invoked at most retry_count + 1 times; with
\* retry_count = 0 a call that reaches the loop runs exactly one iteration.
C1_AttemptsBounded ==
    retryCount >= 0 =>
        /\ iters <= retryCount + 1
        /\ ActionCount <= retryCount + 1
        /\ (retryCount = 0 /\ pc = "done" /\ exit # "precheck") => iters = 1

\* C1 witness: retry_count = 0, the only invocation reported retryable and
\* the call ended after that one iteration.
C1_Witness ==
    /\ retryCount = 0
    /\ pc = "done"
    /\ iters = 1
    /\ ActionCount = 1
    /\ lastAct.canRetry

\* C2: once the buffer has handed out a retryDone handle (bufferedOnce),
\* WaitForFailoverEnd is not called again in the same call.
C2_BufferedAtMostOnce == [][bufferedOnce => bufferCalls' = bufferCalls]_vars

\* C2 witness: a buffered request ran a later iteration without the buffer.
C2_Witness ==
    /\ bufferedOnce
    /\ iters > bufferCalls
    /\ lastAct.canRetry

\* The call touched nothing: no iteration, no buffer call, no lookup, no
\* selection, no action, no statistics, no retryDone.
NoSideEffects ==
    /\ iters = 0
    /\ bufferCalls = 0
    /\ lookups = 0
    /\ SelectedCount = 0
    /\ ActionCount = 0
    /\ DOMAIN statusAggregators = {}
    /\ retryDoneCalls = 0

\* C3 as stated: execute fails with FAILED_PRECONDITION if and only if the
\* allowed types are non-empty and exclude the role, then without side
\* effects.
C3_Original ==
    pc = "done" =>
        /\ (result.code = "FAILED_PRECONDITION") <=> RoleExcluded
        /\ RoleExcluded => NoSideEffects

\* C3 amended: the call fails with FAILED_PRECONDITION before its first
\* iteration if and only if the allowed types are non-empty and exclude the
\* role, then without side effects; with no allowed types every role passes
\* the check. (A call that passed the check can still return an action's or
\* the buffer's FAILED_PRECONDITION.)
C3_PrecheckFailure ==
    pc = "done" =>
        /\ (result.code = "FAILED_PRECONDITION" /\ iters = 0) <=> RoleExcluded
        /\ RoleExcluded => NoSideEffects
        /\ allowedTabletTypes = {} => exit # "precheck"

\* C3 witness: a role outside the allowed types is refused although a healthy
\* tablet of that role exists.
C3_Witness ==
    /\ pc = "done"
    /\ RoleExcluded
    /\ result.code = "FAILED_PRECONDITION"
    /\ healthy[target] # {}

\* C4: an attempt whose snapshot is empty ends the call with UNAVAILABLE and
\* without invoking the action; at the first attempt the action count stays 0.
C4_EmptySnapshotFails ==
    [][(lookups' = lookups + 1 /\ CandidateSet = {}) =>
          /\ pc' = "done"
          /\ result'.code = "UNAVAILABLE"
          /\ actionCalls' = actionCalls
          /\ selected' = selected
          /\ (lookups = 0 => ActionCount' = 0)]_vars

\* C4 witness: the first attempt found no healthy tablet.
C4_Witness ==
    /\ pc = "done"
    /\ exit = "nohealthy"
    /\ lookups = 1
    /\ ActionCount = 0
    /\ result.code = "UNAVAILABLE"

\* C5: within a call no tablet is selected twice and the action is invoked at
\* most once per tablet; the tablets marked invalid are those selected and
\* not yet excused by a final outcome.
C5_InvalidNeverReselected ==
    \A t \in Tablets :
        /\ selected[t] <= 1
        /\ actionCalls[t] <= 1
        /\ t \in invalidTablets => selected[t] = 1

\* C5 witness: a second tablet was tried while the first, marked invalid
\* after a retryable action, was still in the healthy snapshot.
C5_Witness ==
    \E t \in Tablets :
        /\ t \in invalidTablets
        /\ actionCalls[t] = 1
        /\ t \in CandidateSet
        /\ ActionCount = 2

\* C6: after an invocation that reports retryable = false the call is over
\* with that invocation's outcome (nil, or its error wrapped with the target,
\* whatever its code), and no iteration, buffer call or action follows.
C6_NonRetryableStops ==
    /\ [](LastActionFinal =>
            /\ pc = "done"
            /\ exit = "action"
            /\ result = WrappedWithTarget(lastAct.err))
    /\ [][LastActionFinal =>
            /\ iters' = iters
            /\ bufferCalls' = bufferCalls
            /\ actionCalls' = actionCalls
            /\ result' = result]_vars

\* C6 witness: a final error other than UNAVAILABLE was returned wrapped.
C6_Witness ==
    /\ LastActionFinal
    /\ lastAct.err.code = "FAILED_PRECONDITION"
    /\ pc = "done"
    /\ result.wrapped

\* retry_count = 2 and the action reported retryable on three distinct
\* tablets.
ThreeRetryable ==
    /\ retryCount = 2
    /\ pc = "done"
    /\ lastAct.canRetry
    /\ \A t \in Tablets : actionCalls[t] = 1 /\ t \in invalidTablets

\* C7 as stated: after three retryable attempts on three tablets a fourth
\* iteration runs and the call returns UNAVAILABLE wrapped.
C7_Original ==
    ThreeRetryable => (iters = 4 /\ result.code = "UNAVAILABLE" /\ result.wrapped)

\* C7 amended: after three retryable attempts on three tablets the loop is
\* over after its third iteration and the call returns the third
\* invocation's error wrapped with the target (nil when that error is nil).
C7_ExhaustedAfterThree ==
    ThreeRetryable =>
        /\ iters = 3
        /\ lookups = 3
        /\ exit = "exhausted"
        /\ result = WrappedWithTarget(lastAct.err)

\* C7 witness: three retryable attempts, the last one with an error that is
\* not UNAVAILABLE.
C7_Witness == ThreeRetryable /\ result.code = "FAILED_PRECONDITION"

\* The snapshot of the coming attempt is non-empty and every tablet in it is
\* marked invalid.
AllInvalid == CandidateSet # {} /\ CandidateSet \subseteq invalidTablets

\* C8 as stated: an attempt that finds every tablet of a non-empty snapshot
\* invalid fails with code UNAVAILABLE.
C8_Original ==
    [][(lookups' = lookups + 1 /\ AllInvalid) =>
          (pc' = "done" /\ result'.code = "UNAVAILABLE")]_vars

\* C8 amended: such an attempt ends the call with the error the previous
\* attempt left, wrapped; the code is UNAVAILABLE only when that error is nil
\* or itself UNAVAILABLE.
C8_NoCandidateKeepsError ==
    [][(lookups' = lookups + 1 /\ AllInvalid) =>
          /\ pc' = "done"
          /\ result' # NilErr
          /\ result'.wrapped
          /\ result'.code = (IF err = NilErr THEN "UNAVAILABLE" ELSE err.code)
          /\ actionCalls' = actionCalls]_vars

\* C8 witness: no untried candidate was left and the call returned the
\* FAILED_PRECONDITION of its last attempt.
C8_Witness ==
    /\ pc = "done"
    /\ exit = "nocandidate"
    /\ CandidateSet # {}
    /\ result.code = "FAILED_PRECONDITION"

\* C9 as stated: every non-nil error execute returns is wrapped with the
\* target.
C9_Original == (pc = "done" /\ result # NilErr) => result.wrapped

\* C9 amended: every non-nil error returned from the loop (buffer refusal, no
\* healthy tablet, no untried candidate, missing connection, action error,
\* retries exhausted) is wrapped with the target; the error of a disallowed
\* role is returned unwrapped.
C9_LoopErrorsWrapped ==
    (pc = "done" /\ result # NilErr) => (result.wrapped <=> exit # "precheck")

\* C9 witness: a buffer refusal came back wrapped.
C9_Witness ==
    /\ pc = "done"
    /\ exit = "buffer"
    /\ result.wrapped

\* C10: once WaitForFailoverEnd has returned an error the call is over, its
\* result carries the code of that error, and neither that iteration nor any
\* later step looks up tablets, selects one or invokes the action.
C10_BufferErrorEndsCall ==
    /\ [](bufErr # NilErr =>
            /\ pc = "done"
            /\ exit = "buffer"
            /\ result # NilErr
            /\ result.code = bufErr.code)
    /\ [][bufErr' # NilErr =>
            /\ lookups' = lookups
            /\ selected' = selected
            /\ actionCalls' = actionCalls]_vars

\* C10 witness: after a retryable FAILED_PRECONDITION the full buffer refused
\* the request and the call returned the buffer's UNAVAILABLE.
C10_Witness ==
    /\ bufErr.src = "full"
    /\ pc = "done"
    /\ lastAct.err.code = "FAILED_PRECONDITION"
    /\ result.code = "UNAVAILABLE"
    /\ lookups = 1

\* The request is one the buffer is consulted for until it was buffered.
Bufferable == target = "MASTER" /\ ~inTransaction

\* C11 as stated: WaitForFailoverEnd is called at most once in a call, and
\* only after an attempt of the call failed with a retryable error.
C11_Original ==
    [][bufferCalls' = bufferCalls + 1 =>
          (bufferCalls = 0 /\ lastAct.tablet # "none" /\ lastAct.canRetry /\ err # NilErr)]_vars

\* C11 amended: for a MASTER request outside a transaction the buffer is
\* called at the head of every iteration, the first included and whatever
\* the previous attempt left, until it hands out a retryDone handle; so every
\* lookup of a request not yet buffered follows a buffer call of its own
\* iteration, and the calls can number retry_count + 1.
C11_BufferCalledEveryIteration ==
    /\ bufferCalls <= iters
    /\ (Bufferable /\ ~bufferedOnce) => (bufferCalls = iters /\ lookups <= bufferCalls)
    /\ (Bufferable /\ iters >= 1) => bufferCalls >= 1

\* C11 witness: the buffer was called before the first attempt and again
\* after it, two calls in one request.
C11_Witness ==
    /\ bufferCalls = 2
    /\ ActionCount = 1
    /\ pc = "select"
    /\ ~bufferedOnce

\* C12: an iteration calls the buffer exactly when the target is MASTER, the
\* request is not in a transaction and it was not buffered yet; a REPLICA or
\* RDONLY request and a request in a transaction never call it.
C12_BufferOnlyForPrimary ==
    /\ [](((target # "MASTER") \/ inTransaction) => bufferCalls = 0)
    /\ [][iters' = iters + 1 =>
            ((bufferCalls' = bufferCalls + 1) <=>
                (target = "MASTER" /\ ~inTransaction /\ ~bufferedOnce))]_vars

\* C12 witness: a MASTER request in a transaction ran an attempt during a
\* failover without the buffer being called.
C12_Witness ==
    /\ target = "MASTER"
    /\ inTransaction
    /\ bufState = "buffering"
    /\ ActionCount >= 1
    /\ bufferCalls = 0

\* The tablets of the gateway's cell among the candidates of an attempt.
LocalCandidates == {t \in CandidateSet : TabletCell(t) = LocalCell}

\* C13: whatever the shuffle draws, an attempt selects a tablet of another
\* cell only when every local-cell tablet of its snapshot is already marked
\* invalid for the request (or the snapshot has none).
C13_CellAffinity ==
    [][\A t \in Tablets :
          (selected'[t] = selected[t] + 1 /\ TabletCell(t) # LocalCell) =>
              LocalCandidates \subseteq invalidTablets]_vars

\* C13 witness: the remote tablet was used after both local tablets of the
\* snapshot had been marked invalid.
C13_Witness ==
    /\ lastAct.tablet = "t2"
    /\ invalidTablets = {"t1", "t3"}
    /\ healthy[target] = Tablets

\* C14: the candidates of an attempt are the healthy REPLICA and RDONLY
\* tablets exactly when the fallback flag is set and the target is REPLICA,
\* and the healthy tablets of the target otherwise: the attempt selects from
\* that set only, fails with "no healthy tablet" when it is empty and selects
\* one of its tablets when one is untried.
C14_CandidateSet ==
    [][lookups' = lookups + 1 =>
          /\ \A t \in Tablets : selected'[t] > selected[t] => t \in CandidateSet
          /\ (CandidateSet = {}) <=> (exit' = "nohealthy")
          /\ (CandidateSet = {}) => (pc' = "done" /\ result'.code = "UNAVAILABLE")
          /\ (CandidateSet \ invalidTablets # {}) => SelectedCount' = SelectedCount + 1]_vars

\* C14 witness: flag set, no healthy REPLICA, two healthy RDONLY tablets, and
\* the first attempt of a REPLICA request ran the action on one of them.
C14_Witness ==
    /\ routeReplicaToRdonly
    /\ target = "REPLICA"
    /\ healthy["REPLICA"] = {}
    /\ healthy["RDONLY"] = {"t1", "t2"}
    /\ lookups = 1
    /\ lastAct.tablet \in {"t1", "t2"}

Queries(aggrs, key) == IF key \in DOMAIN aggrs THEN aggrs[key].queries ELSE 0

Errors(aggrs, key) == IF key \in DOMAIN aggrs THEN aggrs[key].errors ELSE 0

\* C16: every action invocation adds one query to the aggregator of the
\* request's own target, and one error iff the action returned a non-nil
\* error, and touches no other aggregator; a step without an action
\* invocation leaves the aggregators as they are.
C16_StatsPerInvocation ==
    [][IF ActionCount' = ActionCount + 1
       THEN /\ DOMAIN statusAggregators' = DOMAIN statusAggregators \cup {target}
            /\ Queries(statusAggregators', target) = Queries(statusAggregators, target) + 1
            /\ Errors(statusAggregators', target) =
                   Errors(statusAggregators, target) + (IF lastAct'.err # NilErr THEN 1 ELSE 0)
            /\ \A k \in DOMAIN statusAggregators \ {target} :
                   statusAggregators'[k] = statusAggregators[k]
       ELSE statusAggregators' = statusAggregators]_vars

\* C16 witness: a REPLICA request ran two invocations, the last one on an
\* RDONLY tablet, one failed and one succeeded, and both are recorded under
\* REPLICA.
C16_Witness ==
    /\ target = "REPLICA"
    /\ ActionCount = 2
    /\ lastAct.tablet \in healthy["RDONLY"]
    /\ DOMAIN statusAggregators = {"REPLICA"}
    /\ statusAggregators["REPLICA"] = [queries |-> 2, errors |-> 1]

\* The keys under which an aggregator has been inserted.
InsertedKeys == {k \in TabletTypes : aggrSerial[k] # 0}

\* C17: under every interleaving of getStatsAggregator calls and CacheStatus
\* reads at most one aggregator is created per key, every caller of a key
\* gets the aggregator the map holds, an inserted aggregator is never
\* replaced or removed, and CacheStatus lists each inserted key once.
C17_OneAggregatorPerKey ==
    /\ [](\A k \in TabletTypes : created[k] <= 1)
    /\ [](DOMAIN statusAggregators = InsertedKeys)
    /\ [](\A p \in Procs : proc[p].pc = "returned" =>
              (proc[p].aggr # 0 /\ proc[p].aggr = aggrSerial[proc[p].key]))
    /\ [][\A k \in InsertedKeys :
              aggrSerial'[k] = aggrSerial[k] /\ k \in DOMAIN statusAggregators']_vars
    /\ [][cacheStatus' # cacheStatus =>
              (Range(cacheStatus') = InsertedKeys /\
               Len(cacheStatus') = Cardinality(InsertedKeys))]_vars

\* C17 witness: two callers missed the same key under the read lock, one
\* created the aggregator, the other found it on the second lookup, and a
\* CacheStatus read listed it.
C17_Witness ==
    /\ proc["p1"].via = "created"
    /\ proc["p2"].via = "recheck"
    /\ proc["p1"].key = proc["p2"].key
    /\ proc["p2"].pc = "returned"
    /\ proc["p1"].aggr = proc["p2"].aggr
    /\ Len(cacheStatus) = 1

\* C18: every health event updates the tablet stats cache once, a MASTER
\* event also reaches the buffer (which starts buffering on a primary that
\* stopped serving and stops on one that serves), and an event of a REPLICA
\* or RDONLY target leaves the buffer's state as it is.
C18_HealthEventForwarding ==
    [][\A t \in Tablets, r \in TabletTypes, up \in BOOLEAN :
          StatsUpdate(t, r, up) =>
              /\ \A b \in TabletTypes :
                     healthy'[b] = IF up /\ b = r THEN healthy[b] \cup {t}
                                              ELSE healthy[b] \ {t}
              /\ r # "MASTER" => (bufState' = bufState /\ bufOthers' = bufOthers)
              /\ (r = "MASTER" /\ ~closed /\ bufState = "idle" /\ ~up) =>
                     bufState' = "buffering"
              /\ (r = "MASTER" /\ ~closed /\ bufState = "buffering" /\ up) =>
                     bufState' # "buffering"]_vars

\* C18 witness: while the buffer was buffering after a MASTER event, a
\* REPLICA event reached the cache and left the buffer buffering.
C18_Witness ==
    /\ bufState = "buffering"
    /\ healthy["MASTER"] = {}
    /\ healthy["REPLICA"] = {"t1"}
    /\ healthy["RDONLY"] = {"t2"}

\* The step is the first lookup of a request after the buffer released it.
LookupAfterRelease ==
    pc = "select" /\ bufferedOnce /\ releasedBy \in Tablets /\ lookups' = lookups + 1

\* C19 as stated: the snapshot a released request takes always lists the
\* primary whose event released it.
C19_Original == [][LookupAfterRelease => releasedBy \in healthy["MASTER"]]_vars

\* C19 amended: when a health event releases the parked request the cache
\* already lists the primary of that event, the cache being updated before
\* the buffer is told; the released request then selects that primary if, at
\* its lookup, it is still the healthy primary and is not marked invalid for
\* the request.
C19_ReleaseAfterCacheUpdate ==
    /\ [][(releasedBy' # releasedBy /\ releasedBy' \in Tablets) =>
            (releasedBy' \in healthy["MASTER"] /\ releasedBy' \in healthy'["MASTER"])]_vars
    /\ [][(LookupAfterRelease /\ healthy["MASTER"] = {releasedBy}
                               /\ releasedBy \notin invalidTablets) =>
            selected'[releasedBy] = selected[releasedBy] + 1]_vars

\* C19 witness: the request was parked, the event of t1 released it, and its
\* next attempt ran the action on t1 with success.
C19_Witness ==
    /\ releasedBy = "t1"
    /\ bufferedOnce
    /\ pc = "done"
    /\ lastAct = [tablet |-> "t1", canRetry |-> FALSE, err |-> NilErr]
    /\ actionCalls["t1"] = 1

\* C20: when the caller's deadline expires while the request is parked after
\* a failed attempt, the call ends at once, without another lookup or
\* action, with an error that carries the code of that attempt's error and
\* the target.
C20_DeadlineSurfacesOriginal ==
    [][(pc = "parked" /\ bufErr'.src = "deadline" /\ err # NilErr) =>
          /\ pc' = "done"
          /\ result'.code = err.code
          /\ result'.wrapped
          /\ lookups' = lookups
          /\ actionCalls' = actionCalls]_vars

\* C20 witness: an attempt failed with a retryable FAILED_PRECONDITION, the
\* request was parked, the deadline expired and the call returned
\* FAILED_PRECONDITION.
C20_Witness ==
    /\ bufErr.src = "deadline"
    /\ pc = "done"
    /\ lastAct.canRetry
    /\ lastAct.err.code = "FAILED_PRECONDITION"
    /\ result.code = "FAILED_PRECONDITION"

\* The step is the first lookup of a request the window timer released.
LookupAfterWindow ==
    pc = "select" /\ bufferedOnce /\ releasedBy = "window" /\ lookups' = lookups + 1

\* C21 as stated: a request released by the expiry of the window while no
\* primary is healthy ends with the last primary error seen before it was
\* buffered.
C21_Original ==
    [][(LookupAfterWindow /\ healthy["MASTER"] = {} /\ err # NilErr) =>
          (pc' = "done" /\ result' = NewShardError(err))]_vars

\* C21 amended: a request released by the expiry of the window runs another
\* attempt. While no primary is healthy that attempt invokes no action and
\* the call ends with UNAVAILABLE "no healthy tablet" wrapped with the
\* target, whatever error preceded the buffering; the preceding error is
\* returned only when primaries are listed and every one of them is already
\* marked invalid for the request.
C21_WindowReleaseFailsFast ==
    /\ [][(LookupAfterWindow /\ healthy["MASTER"] = {}) =>
            /\ pc' = "done"
            /\ exit' = "nohealthy"
            /\ result' = NewShardError(Error("UNAVAILABLE", "nohealthy"))
            /\ actionCalls' = actionCalls]_vars
    /\ [][(LookupAfterWindow /\ healthy["MASTER"] # {} /\ err # NilErr
                              /\ healthy["MASTER"] \subseteq invalidTablets) =>
            /\ pc' = "done"
            /\ exit' = "nocandidate"
            /\ result' = NewShardError(err)
            /\ actionCalls' = actionCalls]_vars

\* C21 witness: an attempt on the primary failed with a retryable
\* FAILED_PRECONDITION, the request was parked, the window expired with no
\* primary healthy, and the call returned UNAVAILABLE.
C21_Witness ==
    /\ releasedBy = "window"
    /\ bufferedOnce
    /\ pc = "done"
    /\ exit = "nohealthy"
    /\ lastAct.canRetry
    /\ lastAct.err = Error("FAILED_PRECONDITION", "action")
    /\ result.code = "UNAVAILABLE"
    /\ healthy["MASTER"] = {}

\* C22 as stated: once Close has returned no connection is handed out any
\* more, so no action is invoked on any tablet after it.
C22_Original ==
    [][closed => \A t \in Tablets : actionCalls'[t] = actionCalls[t]]_vars

\* C23 as stated: whenever -tablet_filters and -keyspaces_to_watch are both
\* given, whatever -cells_to_watch is, the construction ends in the fatal
\* configuration error and returns no gateway.
C23_Original ==
    (constructed # "no" /\ tabletFilters # "none" /\ FilteringKeyspaces) =>
        constructed = "both"

\* The piece of -cells_to_watch names a cell.
NamesCell(c) == c # <<>>

\* The cells named in a -cells_to_watch value, in the order of the value, a
\* cell named twice appearing twice.
CellsNamed(str) == SelectSeq(Split(str), NamesCell)

ArrivalAtLimit ==
    /\ pc = "loop"
    /\ bufferCalls' = bufferCalls + 1
    /\ ~closed
    /\ bufState = "buffering"
    /\ Buffered >= BufferSizePerShard

C26_BufferRoundTrip ==
    /\ [][(pc = "parked" /\ pc' = "select") =>
            (bufState = "draining" /\ ~closed /\ ~bufferedOnce /\ bufferedOnce')]_vars
    /\ [][(pc = "parked" /\ bufState = "buffering" /\ bufState' # "buffering"
                         /\ ~closed') => bufState' = "draining"]_vars
    /\ [][(pc = "parked" /\ bufState = "draining" /\ pc' = "parked" /\ ~closed') =>
            bufState' = "draining"]_vars
    /\ [][bufferedOnce => (bufferedOnce' /\ pc' # "parked"
                                         /\ bufferCalls' = bufferCalls)]_vars
    /\ [](retryDoneCalls <= 1)
    /\ []((pc = "done" /\ bufferedOnce) => retryDoneCalls = 1)

\* C26 witness: the request was parked once, released, and its call ended
\* with success after one call of retryDone.
C26_Witness ==
    /\ pc = "done"
    /\ bufferedOnce
    /\ bufferCalls = 1
    /\ retryDoneCalls = 1
    /\ result = NilErr
    /\ bufState = "idle"

\* The buckets of the healthy-tablet index that list the tablet.
BucketsOf(t) == {r \in TabletTypes : t \in healthy[r]}

\* C27: in every state a tablet is listed in at most one bucket of the
\* healthy-tablet index, and the handling of an event that reports a serving
\* tablet under a type leaves it, in one step, in the bucket of that type
\* and in no other.
C27_OneBucketPerTablet ==
    /\ [](\A t \in Tablets : Cardinality(BucketsOf(t)) <= 1)
    /\ [][\A t \in Tablets, r \in TabletTypes :
            StatsUpdate(t, r, TRUE) =>
                (t \in healthy'[r] /\ \A q \in TabletTypes \ {r} : t \notin healthy'[q])]_vars

\* C27 witness: t1 was a healthy MASTER, then reported serving as REPLICA
\* while a request was reading the index: it is listed as REPLICA only.
C27_Witness ==
    /\ BucketsOf("t1") = {"REPLICA"}
    /\ BucketsOf("t2") = {"MASTER"}
    /\ lastAct.tablet = "t1"
    /\ target = "MASTER"
    /\ pc = "loop"

C29_Original == inTransaction => ActionCount <= 1

\* The targets WaitForTablets has to wait for: those of the types asked for,
\* in the watched keyspaces (in every keyspace when none is watched).
TargetsAwaited ==
    {tg \in [keyspace : Keyspaces, tabletType : waitForTablets.types] :
        keyspacesToWatch = {} \/ tg.keyspace \in keyspacesToWatch}

\* C30: called with no type, WaitForTablets returns nil at once without a
\* call to the topology or to the stats cache; called with types, it asks
\* the topology once and returns the error if the targets cannot be
\* enumerated, without a call to the cache; otherwise it returns nil only in
\* a state where every enumerated target that passes the keyspace filter
\* has a healthy tablet, or the context's error when the wait is cancelled.
C30_WaitForTablets ==
    /\ [][(waitForTablets.pc = "idle" /\ waitForTablets'.pc # "idle"
                                      /\ waitForTablets'.types = {}) =>
            /\ waitForTablets'.pc = "done"
            /\ waitForTablets'.result = "nil"
            /\ waitForTablets'.topoCalls = 0
            /\ waitForTablets'.cacheCalls = 0]_vars
    /\ [][(waitForTablets.pc = "idle" /\ waitForTablets'.pc # "idle"
                                      /\ waitForTablets'.types # {}) =>
            /\ waitForTablets'.topoCalls = 1
            /\ waitForTablets'.result \in {"none", "topo"}
            /\ waitForTablets'.result = "topo" => waitForTablets'.cacheCalls = 0
            /\ waitForTablets'.result = "none" =>
                  (waitForTablets'.pc = "waiting" /\ waitForTablets'.cacheCalls = 1)]_vars
    /\ [][(waitForTablets.pc = "waiting" /\ waitForTablets'.result = "nil") =>
            \A tg \in TargetsAwaited : HasHealthyTablet(tg)]_vars
    /\ [](waitForTablets.result = "cancelled" =>
            (waitForTablets.types # {} /\ waitForTablets.cacheCalls = 1))

\* C30 witness: asked to wait for MASTER and REPLICA with only keyspace ks
\* watched, WaitForTablets blocked and returned nil once the cache listed a
\* healthy primary and a healthy replica.
C30_Witness ==
    /\ waitForTablets.pc = "done"
    /\ waitForTablets.result = "nil"
    /\ waitForTablets.types = {"MASTER", "REPLICA"}
    /\ keyspacesToWatch = {"ks"}
    /\ waitForTablets.topoCalls = 1
    /\ waitForTablets.cacheCalls = 1
    /\ healthy["MASTER"] = {"t1"}
    /\ healthy["REPLICA"] = {"t2"}

\* The number of places of the slice that hold the tablet.
Occurrences(ts, t) == Cardinality({k \in 1..Len(ts) : ts[k] = t})

\* The slice is a rearrangement of the other one.
Permutation(a, b) ==
    /\ Len(a) = Len(b)
    /\ \A t \in Tablets : Occurrences(a, t) = Occurrences(b, t)

\* Every tablet of the cell comes before every tablet of another cell.
LocalFirst(cell, ts) ==
    \A j, k \in 1..Len(ts) :
        (TabletCell(ts[j]) # cell /\ TabletCell(ts[k]) = cell) => k < j

\* C31: for every slice, every local cell and every outcome of the draws,
\* shuffleTablets leaves a rearrangement of its input in which the tablets
\* of the local cell come first, and every offset it reads or writes lies
\* inside the slice.
C31_ShufflePartitions ==
    shuffleCall.pc = "returned" =>
        /\ shuffleCall.orders # {}
        /\ \A o \in shuffleCall.orders :
              /\ Permutation(o, shuffleCall.tablets)
              /\ LocalFirst(shuffleCall.cell, o)
        /\ shuffleCall.indexed \subseteq 0..(Len(shuffleCall.tablets) - 1)

\* C31 witness: the slice t2 t1 t2 t3 shuffled for cell a can come out as
\* t3 t1 t2 t2.
C31_Witness ==
    /\ shuffleCall.pc = "returned"
    /\ shuffleCall.cell = "a"
    /\ shuffleCall.tablets = <<"t2", "t1", "t2", "t3">>
    /\ <<"t3", "t1", "t2", "t2">> \in shuffleCall.orders
    /\ shuffleCall.indexed = 0..3

\* C32: retryDone is called only at the return of withRetry, when no attempt
\* of the call is left to run: once if the buffer handed the call a
\* retryDone handle, on whichever path the call ends, and never otherwise.
C32_RetryDoneOnce ==
    /\ [](pc # "done" => retryDoneCalls = 0)
    /\ [](pc = "done" => retryDoneCalls = (IF bufferedOnce THEN 1 ELSE 0))
    /\ [][retryDoneCalls' # retryDoneCalls =>
            (pc # "done" /\ pc' = "done" /\ retryDoneCalls' = retryDoneCalls + 1)]_vars
    /\ [][pc = "done" =>
            (pc' = "done" /\ actionCalls' = actionCalls /\ lookups' = lookups)]_vars
    /\ [](bufferedOnce => exit \in {"none", "nohealthy", "nocandidate", "action",
                                      "exhausted"})

\* C32 witness: a buffered call used up its attempts after the release and
\* returned; retryDone was called once.
C32_Witness ==
    /\ pc = "done"
    /\ bufferedOnce
    /\ exit = "exhausted"
    /\ retryDoneCalls = 1
    /\ lastAct.canRetry

\* C33: an attempt that finds every tablet of a non-empty snapshot already
\* marked invalid ends the call without an action; the call returns the
\* error the earlier attempts left, unchanged but for the target it is
\* wrapped with, and returns UNAVAILABLE "no available connection" exactly
\* when they left none.
C33_LastErrorNotOverridden ==
    [][(lookups' = lookups + 1 /\ AllInvalid) =>
          /\ exit' = "nocandidate"
          /\ pc' = "done"
          /\ actionCalls' = actionCalls
          /\ err # NilErr => result' = NewShardError(err)
          /\ err = NilErr =>
                result' = NewShardError(Error("UNAVAILABLE", "nocandidate"))
          /\ result'.src = "nocandidate" <=> err = NilErr]_vars

\* C33 witness: the only attempt reported retryable with a nil error, no
\* untried candidate was left, and the call returned UNAVAILABLE "no
\* available connection".
C33_Witness ==
    /\ pc = "done"
    /\ exit = "nocandidate"
    /\ CandidateSet # {}
    /\ lastAct.canRetry
    /\ lastAct.err = NilErr
    /\ result = NewShardError(Error("UNAVAILABLE", "nocandidate"))

\* The call of withRetry is under way.
Running == pc \in {"loop", "parked", "select"}

\* C34: a parked request always leaves the buffer, a call under way always
\* returns, and it returns within retryCount + 1 iterations.
C34_BufferedRequestReturns ==
    /\ (pc = "parked") ~> (pc # "parked")
    /\ Running ~> (pc = "done")
    /\ [](iters <= retryCount + 1)

\* C34 witness: the request failed on the old primary t1, was parked, was
\* released and succeeded on the new primary t2 in its second iteration.
C34_Witness ==
    /\ pc = "done"
    /\ bufferedOnce
    /\ result = NilErr
    /\ iters = 2
    /\ invalidTablets = {"t1"}
    /\ lastAct.tablet = "t2"
    /\ healthy["MASTER"] = {"t2"}

\* The goroutine holds dg.mu, for reading or for writing.
HoldsMu(p) == p \in mu.readers \/ mu.writer = p

\* What the stats cache, the health check, the buffer and the actions keep.
collaboratorVars == <<env, lookups, selected, actionCalls, lastAct, bufferCalls, bufErr, event>>

\* C35: dg.mu is held only inside the map sections of getStatsAggregator and
\* CacheStatus, never by a reader and a writer at once; a step taken while
\* holding it or to acquire it calls nothing of the stats cache, the health
\* check, the buffer or an action, and the handler of a health event neither
\* takes nor waits for it; whenever a goroutine is inside one of the two
\* functions some goroutine can take a step, so none waits for ever.
C35_NoNestedLocks ==
    /\ [](\A p \in Procs :
            /\ p \in mu.readers <=> proc[p].pc \in {"rlocked", "status"}
            /\ mu.writer = p <=> proc[p].pc = "locked")
    /\ [](mu.writer # "none" => mu.readers = {})
    /\ [][(mu' # mu \/ \E p \in Procs : HoldsMu(p) /\ proc'[p] # proc[p]) =>
            UNCHANGED collaboratorVars]_vars
    /\ [][\A t \in Tablets, r \in TabletTypes, up \in BOOLEAN :
            StatsUpdate(t, r, up) => (mu' = mu /\ proc' = proc)]_vars
    /\ []((\E p \in Procs : proc[p].pc \notin {"idle"}) => ENABLED NextAggr)

\* C35 witness: one goroutine waits for the write lock while the other
\* reads the map in CacheStatus, and the cache has taken a health event.
C35_Witness ==
    /\ proc["p1"].pc = "lock"
    /\ proc["p2"].pc = "status"
    /\ mu.readers = {"p2"}
    /\ healthy["MASTER"] = {"t1"}

\* The step selects a tablet and finds no connection for it.
MissingConnection == SelectedCount' = SelectedCount + 1 /\ actionCalls' = actionCalls

\* C36: an iteration whose selected tablet has no connection marks it
\* invalid and uses up one of the retry_count + 1 iterations, so a call looks
\* up at most retry_count + 1 connections; with retry_count = 0 a first
\* candidate without connection ends the call with the wrapped UNAVAILABLE
\* of the missing connection, no other tablet having been selected.
C36_MissingConnectionCounts ==
    /\ [](SelectedCount <= retryCount + 1)
    /\ [](SelectedCount <= iters)
    /\ [][MissingConnection =>
            /\ i' = i + 1
            /\ \E t \in Tablets :
                  /\ selected'[t] = selected[t] + 1
                  /\ invalidTablets' = invalidTablets \cup {t}
            /\ IF i + 1 < retryCount + 1
               THEN pc' = "loop" /\ err' = NoConnectionError
               ELSE /\ pc' = "done"
                    /\ exit' = "exhausted"
                    /\ result' = NewShardError(NoConnectionError)
                    /\ result'.code = "UNAVAILABLE"]_vars
    /\ [][(retryCount = 0 /\ MissingConnection) =>
            /\ pc' = "done"
            /\ SelectedCount' = 1
            /\ ActionCount' = 0]_vars

\* C36 witness: retry_count = 0, the one selected tablet had no connection
\* and the call failed although another healthy tablet was left untried.
C36_Witness ==
    /\ retryCount = 0
    /\ pc = "done"
    /\ exit = "exhausted"
    /\ result = NewShardError(NoConnectionError)
    /\ SelectedCount = 1
    /\ ActionCount = 0
    /\ healthy[target] \ invalidTablets # {}

\* The last part of C37: when the last invocation reported retryable with a
\* nil error and the call ends in a later iteration without another
\* invocation (empty snapshot, no untried candidate, missing connection,
\* buffer refusal), the call returns an error.
RetryableNilThenError ==
    [][(/\ lastAct.tablet # "none" /\ lastAct.canRetry /\ lastAct.err = NilErr
        /\ pc # "done" /\ pc' = "done"
        /\ actionCalls' = actionCalls) =>
            (result' # NilErr /\ exit' \in {"nohealthy", "nocandidate", "exhausted", "buffer"})]_vars

\* C37 as stated: whatever integer retry_count is, a call that returns nil
\* has invoked the action at least once and its last invocation returned a
\* nil error.
C37_Original ==
    (pc = "done" /\ result = NilErr) =>
        (ActionCount >= 1 /\ lastAct.tablet # "none" /\ lastAct.err = NilErr)

\* The same for the gateways whose retry_count is not negative.
SuccessAfterAction == retryCount >= 0 => C37_Original

====
